---- MODULE Spec2Model ----
(***************************************************************************)
(* A model of the NBER working-paper scraper (src/nber_scraper/scraper.py):*)
(* the backward scan of scrape_papers, the retrying fetch get_page, the    *)
(* extraction extract_paper_metadata and the two acceptance filters.       *)
(*                                                                         *)
(* Text is a sequence of one-character strings, so that the regular        *)
(* expressions and strptime formats of the source are computed character   *)
(* by character.  A Python value that may be None is a record with a       *)
(* boolean field "some".                                                   *)
(***************************************************************************)
EXTENDS Integers, Sequences, FiniteSets, TLC

\* ------------------------------------------------------------------------
\* Python values
\* ------------------------------------------------------------------------

\* Python's None.
None == [some |-> FALSE]

\* A value that is not None.
Some(v) == [some |-> TRUE, v |-> v]

\* bool(x) of an optional integer: None and 0 are falsy.
TruthyInt(x) == x.some /\ x.v # 0

\* bool(x) of an optional string: None and "" are falsy.
TruthyStr(x) == x.some /\ x.v # <<>>

\* (x or ''): the string, or the empty string for None.
OrEmpty(x) == IF x.some THEN x.v ELSE <<>>

\* ------------------------------------------------------------------------
\* Characters and regular-expression helpers
\* ------------------------------------------------------------------------

UpperCs == <<"A","B","C","D","E","F","G","H","I","J","K","L","M",
             "N","O","P","Q","R","S","T","U","V","W","X","Y","Z">>

LowerCs == <<"a","b","c","d","e","f","g","h","i","j","k","l","m",
             "n","o","p","q","r","s","t","u","v","w","x","y","z">>

Digits == <<"0","1","2","3","4","5","6","7","8","9">>

Range(s) == {s[i] : i \in DOMAIN s}

\* str.lower() on one character.
LowerChar(c) ==
    IF c \in Range(UpperCs)
    THEN LowerCs[CHOOSE i \in DOMAIN UpperCs : UpperCs[i] = c]
    ELSE c

\* str.lower()
Lower(s) == [i \in DOMAIN s |-> LowerChar(s[i])]

\* The regular expression class \w.
IsWordChar(c) == c \in Range(UpperCs) \cup Range(LowerCs) \cup Range(Digits) \cup {"_"}

\* The regular expression class \s.
IsSpace(c) == c \in {" ", "\n", "\t", "\r"}

\* \b at the gap before position i of s (i in 1..Len(s)+1): exactly one side
\* of the gap is a word character; outside the string counts as non-word.
WordBoundary(s, i) ==
    LET before == i > 1 /\ IsWordChar(s[i - 1])
        after  == i <= Len(s) /\ IsWordChar(s[i])
    IN  before # after

\* str.strip()
RECURSIVE LStrip(_)
LStrip(s) == IF s # <<>> /\ IsSpace(Head(s)) THEN LStrip(Tail(s)) ELSE s

RECURSIVE RStrip(_)
RStrip(s) ==
    IF s # <<>> /\ IsSpace(s[Len(s)]) THEN RStrip(SubSeq(s, 1, Len(s) - 1)) ELSE s

Strip(s) == RStrip(LStrip(s))

\* re.search(r'\b' + re.escape(lit) + r'\b', text, re.IGNORECASE): lit occurs
\* in text, compared without case, with a word boundary at both ends.
SearchWholeWord(lit, text) ==
    \E i \in 1..(Len(text) - Len(lit) + 1) :
        /\ WordBoundary(text, i)
        /\ \A k \in 1..Len(lit) : LowerChar(text[i + k - 1]) = LowerChar(lit[k])
        /\ WordBoundary(text, i + Len(lit))

\* ------------------------------------------------------------------------
\* matches_search_query
\* ------------------------------------------------------------------------

\* The terms searched for the query "ai" (each between two \b).
AiTerms ==
    { <<"a","i">>,
      <<"a","r","t","i","f","i","c","i","a","l"," ",
        "i","n","t","e","l","l","i","g","e","n","c","e">>,
      <<"m","a","c","h","i","n","e"," ","l","e","a","r","n","i","n","g">>,
      <<"d","e","e","p"," ","l","e","a","r","n","i","n","g">>,
      <<"n","e","u","r","a","l"," ","n","e","t","w","o","r","k">>,
      <<"a","l","g","o","r","i","t","h","m">> }

\* search_terms for a stored query.
SearchTerms(query) ==
    LET query_lower == Strip(Lower(query))
    IN  IF query_lower = <<"a","i">> THEN AiTerms ELSE {query_lower}

\* matches_search_query(paper_data) for a scraper whose search_query is query.
MatchesSearchQuery(query, paper_data) ==
    IF query = <<>> THEN TRUE
    ELSE LET title    == Lower(OrEmpty(paper_data.title))
             abstract == Lower(OrEmpty(paper_data.abstract))
         IN  \/ \E term \in SearchTerms(query) : SearchWholeWord(term, title)
             \/ \E term \in SearchTerms(query) : SearchWholeWord(term, abstract)

\* ------------------------------------------------------------------------
\* datetime.strptime and matches_date_range
\* ------------------------------------------------------------------------

\* The pieces of s between occurrences of the character sep.
RECURSIVE SplitOn(_, _)
SplitOn(s, sep) ==
    IF \A i \in DOMAIN s : s[i] # sep THEN <<s>>
    ELSE LET k == CHOOSE i \in DOMAIN s :
                      s[i] = sep /\ \A j \in 1..(i - 1) : s[j] # sep
         IN  <<SubSeq(s, 1, k - 1)>> \o SplitOn(SubSeq(s, k + 1, Len(s)), sep)

IsDigit(c) == c \in Range(Digits)

DigitVal(c) == (CHOOSE i \in DOMAIN Digits : Digits[i] = c) - 1

\* The number written by a non-empty sequence of digits.
RECURSIVE NumVal(_)
NumVal(ds) ==
    IF Len(ds) = 1 THEN DigitVal(ds[1])
    ELSE 10 * NumVal(SubSeq(ds, 1, Len(ds) - 1)) + DigitVal(ds[Len(ds)])

AllDigits(ds) == ds # <<>> /\ \A i \in DOMAIN ds : IsDigit(ds[i])

\* %Y: exactly four digits.
IsYearField(f) == Len(f) = 4 /\ AllDigits(f)

\* %m: 1[0-2] | 0[1-9] | [1-9]
IsMonthField(f) == AllDigits(f) /\ Len(f) \in {1, 2} /\ NumVal(f) \in 1..12

\* %d: 3[01] | [12]\d | 0[1-9] | [1-9] | " "[1-9]
IsDayField(f) ==
    \/ AllDigits(f) /\ Len(f) \in {1, 2} /\ NumVal(f) \in 1..31
    \/ Len(f) = 2 /\ f[1] = " " /\ IsDigit(f[2]) /\ f[2] # "0"

DayVal(f) == IF f[1] = " " THEN DigitVal(f[2]) ELSE NumVal(f)

IsLeap(y) == y % 4 = 0 /\ (y % 100 # 0 \/ y % 400 = 0)

DaysInMonth(y, m) ==
    IF m = 2 THEN (IF IsLeap(y) THEN 29 ELSE 28)
    ELSE IF m \in {4, 6, 9, 11} THEN 30 ELSE 31

\* datetime.strptime(s, '%Y<sep>%m<sep>%d'): Some(date) with the date as the
\* number yyyymmdd, which orders as datetime does, or None for a ValueError.
Strptime(s, sep) ==
    LET f == SplitOn(s, sep)
    IN  IF /\ Len(f) = 3
           /\ IsYearField(f[1]) /\ IsMonthField(f[2]) /\ IsDayField(f[3])
           /\ NumVal(f[1]) >= 1
           /\ DayVal(f[3]) <= DaysInMonth(NumVal(f[1]), NumVal(f[2]))
        THEN Some(NumVal(f[1]) * 10000 + NumVal(f[2]) * 100 + DayVal(f[3]))
        ELSE None

Contains(s, c) == \E i \in DOMAIN s : s[i] = c

\* The parse of a bound (start_date or end_date): '%Y/%m/%d' when it holds a
\* slash, '%Y-%m-%d' otherwise.
ParseBound(b) == IF Contains(b, "/") THEN Strptime(b, "/") ELSE Strptime(b, "-")

\* MatchesDateRange with the bounds excluded.
MatchesDateRange_Exclusive(start_d, end_d, paper_data) ==
    IF ~TruthyStr(start_d) /\ ~TruthyStr(end_d) THEN TRUE
    ELSE IF ~TruthyStr(paper_data.publication_date) THEN TRUE
    ELSE LET pub_date   == paper_data.publication_date.v
             paper_date == IF Contains(pub_date, "/") THEN Strptime(pub_date, "/")
                           ELSE Strptime(pub_date, "-")
         IN  IF ~Contains(pub_date, "/") /\ ~Contains(pub_date, "-") THEN TRUE
             ELSE IF ~paper_date.some THEN TRUE
             ELSE IF /\ TruthyStr(start_d)
                     /\ ParseBound(start_d.v).some
                     /\ paper_date.v <= ParseBound(start_d.v).v
                  THEN FALSE
             ELSE IF /\ TruthyStr(end_d)
                     /\ ParseBound(end_d.v).some
                     /\ paper_date.v >= ParseBound(end_d.v).v
                  THEN FALSE
             ELSE TRUE

\* MatchesDateRange rejecting a publication date that does not parse.
MatchesDateRange_FailClosed(start_d, end_d, paper_data) ==
    IF ~TruthyStr(start_d) /\ ~TruthyStr(end_d) THEN TRUE
    ELSE IF ~TruthyStr(paper_data.publication_date) THEN TRUE
    ELSE LET pub_date   == paper_data.publication_date.v
             paper_date == IF Contains(pub_date, "/") THEN Strptime(pub_date, "/")
                           ELSE Strptime(pub_date, "-")
         IN  IF ~Contains(pub_date, "/") /\ ~Contains(pub_date, "-") THEN TRUE
             ELSE IF ~paper_date.some THEN FALSE
             ELSE IF /\ TruthyStr(start_d)
                     /\ ParseBound(start_d.v).some
                     /\ paper_date.v < ParseBound(start_d.v).v
                  THEN FALSE
             ELSE IF /\ TruthyStr(end_d)
                     /\ ParseBound(end_d.v).some
                     /\ paper_date.v > ParseBound(end_d.v).v
                  THEN FALSE
             ELSE TRUE

\* matches_date_range(paper_data) for a scraper with the bounds start_d, end_d.
MatchesDateRange(start_d, end_d, paper_data) ==
    IF ~TruthyStr(start_d) /\ ~TruthyStr(end_d) THEN TRUE
    ELSE IF ~TruthyStr(paper_data.publication_date) THEN TRUE
    ELSE LET pub_date   == paper_data.publication_date.v
             paper_date == IF Contains(pub_date, "/") THEN Strptime(pub_date, "/")
                           ELSE Strptime(pub_date, "-")
         IN  IF ~Contains(pub_date, "/") /\ ~Contains(pub_date, "-") THEN TRUE
             ELSE IF ~paper_date.some THEN TRUE
             ELSE IF /\ TruthyStr(start_d)
                     /\ ParseBound(start_d.v).some
                     /\ paper_date.v < ParseBound(start_d.v).v
                  THEN FALSE
             ELSE IF /\ TruthyStr(end_d)
                     /\ ParseBound(end_d.v).some
                     /\ paper_date.v > ParseBound(end_d.v).v
                  THEN FALSE
             ELSE TRUE

\* ------------------------------------------------------------------------
\* The server and extract_paper_metadata
\* ------------------------------------------------------------------------

AbstractLabel == <<"a","b","s","t","r","a","c","t">>

\* re.sub(r'^Abstract:?\s*', '', text, flags=re.IGNORECASE)
StripLabel(text) ==
    IF Len(text) >= Len(AbstractLabel)
       /\ Lower(SubSeq(text, 1, Len(AbstractLabel))) = AbstractLabel
    THEN LET rest  == SubSeq(text, Len(AbstractLabel) + 1, Len(text))
             rest2 == IF rest # <<>> /\ Head(rest) = ":" THEN Tail(rest) ELSE rest
         IN  LStrip(rest2)
    ELSE text

\* re.sub(r'\s+', ' ', text): every run of whitespace becomes one space.
RECURSIVE CollapseSpace(_)
CollapseSpace(text) ==
    IF text = <<>> THEN <<>>
    ELSE IF IsSpace(Head(text))
         THEN <<" ">> \o CollapseSpace(LStrip(text))
         ELSE <<Head(text)>> \o CollapseSpace(Tail(text))

\* The text taken from one abstract element (lines 110-113).
CleanAbstract(text) == CollapseSpace(StripLabel(Strip(text)))

\* The number of CSS selectors in abstract_selectors.
NumSelectors == 7

NoElems == [i \in 1..NumSelectors |-> None]

\* A page the server can serve for a document.  title, publication_date and
\* pdf_url are the contents of the citation_* meta tags (None: tag absent);
\* elems[i] is the text of the first element selected by abstract_selectors[i]
\* (None: no such element); main_abstract is group 1 of the pattern of line
\* 124 on the text of <main> or <body> (None: no match or no such element);
\* malformed: parsing the page raises.
PageOnTopic ==
    [ title            |-> Some(<<"L","a","b","o","r"," ","a","n","d"," ","A","I">>),
      publication_date |-> Some(<<"2","0","2","2","/","0","5","/","0","1">>),
      pdf_url          |-> Some(<<"u">>),
      elems            |-> [NoElems EXCEPT ![1] =
                               Some(<<"A","b","s","t","r","a","c","t",":"," ",
                                      "W","a","g","e","s"," "," ","r","i","s","e"," ">>)],
      main_abstract    |-> None,
      malformed        |-> FALSE ]

PageOffTopic ==
    [ title            |-> Some(<<"C","o","l","l","a","b","o","r","a","t","i","v","e">>),
      publication_date |-> Some(<<"2","0","2","2","/","0","5","/","0","1">>),
      pdf_url          |-> None,
      elems            |-> [NoElems EXCEPT ![3] = Some(<<>>)],
      main_abstract    |-> Some(<<"T","r","a","d","e">>),
      malformed        |-> FALSE ]

PageOld ==
    [ title            |-> Some(<<"L","a","b","o","r">>),
      publication_date |-> Some(<<"2","0","2","1","-","0","6","-","0","1">>),
      pdf_url          |-> Some(<<"v">>),
      elems            |-> NoElems,
      main_abstract    |-> None,
      malformed        |-> FALSE ]

PageMalformed ==
    [ title            |-> None,
      publication_date |-> None,
      pdf_url          |-> None,
      elems            |-> NoElems,
      main_abstract    |-> None,
      malformed        |-> TRUE ]

Pages == {PageOnTopic, PageOffTopic, PageOld, PageMalformed}

\* The body of an error response: it parses, and holds nothing.
PageError ==
    [ title            |-> None,
      publication_date |-> None,
      pdf_url          |-> None,
      elems            |-> NoElems,
      main_abstract    |-> None,
      malformed        |-> FALSE ]

\* What one HTTP request can meet: a response with a status code, or a
\* failure below HTTP (requests.ConnectionError, requests.Timeout).
Response(status, page) == [kind |-> "response", status |-> status, page |-> page]

Failure(error) == [kind |-> "failure", error |-> error]

NotFound == Response(404, PageError)

ServerError == Response(500, PageError)

ErrorAnswers == {NotFound, ServerError, Failure("ConnectionError"), Failure("Timeout")}

\* response.raise_for_status(): Some(HTTPError) for a 4xx or 5xx status.
RaiseForStatus(response) ==
    IF response.status >= 400 /\ response.status < 600
    THEN Some([exc |-> "HTTPError", status |-> response.status])
    ELSE None

\* The exception session.get or raise_for_status raises for an answer, if any.
\* All of them are requests.RequestException.
AttemptException(answer) ==
    IF answer.kind = "failure" THEN Some([exc |-> answer.error, status |-> 0])
    ELSE RaiseForStatus(answer)

RequestExceptions == {"HTTPError", "ConnectionError", "Timeout"}

\* The abstract of a page (lines 96-127).
ExtractAbstract(page) ==
    LET present  == {i \in 1..NumSelectors : page.elems[i].some}
        first    == CHOOSE i \in present : \A j \in present : i <= j
        selected == IF present = {} THEN None
                    ELSE Some(CleanAbstract(page.elems[first].v))
    IN  IF ~TruthyStr(selected) /\ page.main_abstract.some
        THEN Some(Strip(page.main_abstract.v))
        ELSE selected

\* str.strip() of a meta tag's content, when the tag is there.
MetaContent(x) == IF x.some THEN Some(Strip(x.v)) ELSE None

\* paper_data as built from a parsed page (lines 60-130).  paper_id stands
\* for the string 'w<paper_number>'; url, authors, doi and scraped_at are
\* left out.
PaperData(paper_number, page) ==
    [ paper_id         |-> paper_number,
      title            |-> MetaContent(page.title),
      abstract         |-> ExtractAbstract(page),
      pdf_url          |-> MetaContent(page.pdf_url),
      publication_date |-> MetaContent(page.publication_date) ]

\* ------------------------------------------------------------------------
\* Bounds of the model and program constants
\* ------------------------------------------------------------------------

\* Documents exist only at the LiveSpan highest IDs a scan examines: the
\* server may serve a page for start_number, ..., start_number - LiveSpan + 1
\* and answers every lower ID with an error.
LiveSpan == 2

\* A start number from which the scan can reach ID 0.
SmallStart == 2

\* The largest retries argument of a direct get_page call.
MaxRetriesArg == 4

\* delay=1.0, the default of __init__.
Delay == 1

\* retries=3, the default of get_page.
DefaultRetries == 3

\* max_consecutive_failures
MaxConsecutiveFailures == 50

\* range(33500, 33000, -10)
ProbeStart == 33500

ProbeStop == 33000

ProbeStep == 10

\* start_number = 33200  # Fallback
FallbackStart == 33200

\* The number of calls of scrape_papers on one scraper.
MaxRuns == 2

\* if papers_found % 10 == 0
CheckpointEvery == 10

\* The arguments of scrape_papers that are explored.
MaxPapersArgs == {None, Some(0), Some(1), Some(2)}

MaxPagesArgs == {None, Some(0), Some(1), Some(MaxConsecutiveFailures)}

\* The calls (max_papers, max_pages, start_number) that are explored: every
\* pair of limits on a scan that can reach ID 0, every accepted limit on a scan
\* from 100, and the scans from 50 and 200 that no accepted limit ends.
CallArgs ==
    (MaxPapersArgs \X MaxPagesArgs \X {Some(SmallStart)})
    \cup (MaxPapersArgs \X {None, Some(1)} \X {Some(100)})
    \cup ({None} \X {None, Some(0), Some(MaxConsecutiveFailures)}
               \X {Some(MaxConsecutiveFailures), Some(200)})

\* The scrapers that are constructed: (search_query, start_date, end_date).
ConstructorArgs ==
    { [ search_query |-> <<"L","a","b","o","r">>,
        start_date   |-> Some(<<"2","0","2","2","-","0","1","-","0","1">>),
        end_date     |-> Some(<<"2","0","2","3","/","0","1","/","0","1">>) ],
      [ search_query |-> <<>>, start_date |-> None, end_date |-> None ] }

\* ------------------------------------------------------------------------
\* State
\* ------------------------------------------------------------------------

VARIABLES
    search_query, start_date, end_date,   \* fields of the scraper
    papers,                               \* self.papers
    files,                                \* the JSON files written by save_to_json
    downloaded,                           \* paper_ids whose PDF was written
    pc,                                   \* position of the program
    max_papers, max_pages, start_number, download_pdfs,  \* arguments of scrape_papers
    current_number, papers_checked, papers_found, consecutive_failures,
    paper_data,                           \* result of extract_paper_metadata
    stop_reason,                          \* the break that ended the loop
    gp_caller, retries, attempt, sleeps, gp_result,  \* the get_page call
    last_answer,                          \* history: the answer to the latest request
    examined,                             \* history: IDs handed to extract_paper_metadata
    outcomes,                             \* history: outcome of each examined ID
    start_arg,                            \* history: the start_number argument as passed
    test_num,                             \* loop variable of the frontier probe
    probed,                               \* history: IDs probed with a HEAD request
    rested,                               \* history: delay slept since the latest request
    save_calls,                           \* history: the calls of save_to_json
    runs,                                 \* history: calls of scrape_papers so far
    interrupted,                          \* history: a KeyboardInterrupt was raised
    date_match,                           \* result of a direct matches_date_range call
    query_match                           \* result of a direct matches_search_query call

scraper_vars == <<search_query, start_date, end_date, papers, files, downloaded>>

arg_vars == <<max_papers, max_pages, start_number, download_pdfs>>

arg_vars_but_start == <<max_papers, max_pages, download_pdfs>>

loop_vars == <<current_number, papers_checked, papers_found, consecutive_failures>>

gp_vars == <<gp_caller, retries, attempt, sleeps, gp_result>>

hist_vars == <<examined, outcomes>>

\* What only the frontier probe, an interrupt and a direct call of
\* matches_date_range change.
side_vars == <<start_arg, test_num, probed, interrupted, date_match, query_match>>

vars == <<scraper_vars, arg_vars, loop_vars, gp_vars, hist_vars, last_answer, pc,
          paper_data, stop_reason, side_vars, rested, save_calls, runs>>

Pending == [kind |-> "pending"]

\* __init__ (lines 20-31), and no call made yet.
Init ==
    /\ \E c \in ConstructorArgs :
          /\ search_query = IF c.search_query # <<>> THEN Lower(c.search_query) ELSE <<>>
          /\ start_date = c.start_date
          /\ end_date = c.end_date
    /\ papers = <<>>
    /\ files = {}
    /\ downloaded = {}
    /\ pc = "idle"
    /\ max_papers = None /\ max_pages = None
    /\ start_number = 0 /\ download_pdfs = FALSE
    /\ current_number = 0 /\ papers_checked = 0
    /\ papers_found = 0 /\ consecutive_failures = 0
    /\ paper_data = None
    /\ stop_reason = "none"
    /\ gp_caller = "none" /\ retries = 0 /\ attempt = 0
    /\ sleeps = <<>> /\ last_answer = None /\ gp_result = Pending
    /\ examined = <<>>
    /\ outcomes = <<>>
    /\ start_arg = None
    /\ test_num = 0 /\ probed = <<>>
    /\ rested = None
    /\ save_calls = <<>>
    /\ runs = 0
    /\ interrupted = FALSE
    /\ date_match = None
    /\ query_match = None

\* ------------------------------------------------------------------------
\* get_page
\* ------------------------------------------------------------------------

\* The answers the server can give to a request of the current get_page call:
\* any page or any error for a document that may exist and for a PDF, 404 for
\* a document below the live span.
Answers ==
    IF gp_caller = "extract" /\ current_number <= start_number - LiveSpan
    THEN {NotFound}
    ELSE ErrorAnswers \cup {Response(200, p) : p \in Pages}

\* The position a finished get_page call returns to.
AfterGetPage ==
    CASE gp_caller = "extract"  -> "extract"
      [] gp_caller = "download" -> "download"
      [] OTHER                  -> "returned"

\* get_page has returned to its caller: its locals are gone.
EndGetPage ==
    /\ gp_caller' = "none"
    /\ retries' = 0
    /\ attempt' = 0
    /\ sleeps' = <<>>
    /\ gp_result' = Pending

\* A call get_page(url, retries=n) begins.
BeginGetPage(caller, n) ==
    /\ gp_caller' = caller
    /\ retries' = n
    /\ attempt' = 0
    /\ sleeps' = <<>>
    /\ gp_result' = IF n >= 1 THEN Pending ELSE [kind |-> "returned", val |-> None]

\* GetPageAttempt raising one attempt early (attempt == retries - 2) and
\* sleeping the plain delay after a failure.
GetPageAttempt_EarlyRaise(answer) ==
    /\ pc = "get_page"
    /\ gp_result = Pending
    /\ last_answer' = Some(answer)
    /\ LET e == AttemptException(answer)
       IN  IF ~e.some
           THEN /\ sleeps' = Append(sleeps, Delay)
                /\ rested' = Some(Delay)
                /\ gp_result' = [kind |-> "returned", val |-> Some(answer)]
                /\ pc' = AfterGetPage
                /\ UNCHANGED attempt
           ELSE IF attempt >= retries - 2
           THEN /\ gp_result' = [kind |-> "raised", val |-> e.v]
                /\ rested' = Some(0)
                /\ pc' = AfterGetPage
                /\ UNCHANGED <<attempt, sleeps>>
           ELSE /\ sleeps' = Append(sleeps, Delay)
                /\ rested' = Some(Delay)
                /\ attempt' = attempt + 1
                /\ UNCHANGED <<gp_result, pc>>
    /\ UNCHANGED <<scraper_vars, arg_vars, loop_vars, hist_vars, paper_data,
                   stop_reason, gp_caller, retries, side_vars, save_calls, runs>>

\* One iteration of the for loop of get_page (lines 35-45).
GetPageAttempt(answer) ==
    /\ pc = "get_page"
    /\ gp_result = Pending
    /\ last_answer' = Some(answer)
    /\ LET e == AttemptException(answer)
       IN  IF ~e.some
           THEN /\ sleeps' = Append(sleeps, Delay)
                /\ rested' = Some(Delay)
                /\ gp_result' = [kind |-> "returned", val |-> Some(answer)]
                /\ pc' = AfterGetPage
                /\ UNCHANGED attempt
           ELSE IF attempt = retries - 1
           THEN /\ gp_result' = [kind |-> "raised", val |-> e.v]
                /\ rested' = Some(0)
                /\ pc' = AfterGetPage
                /\ UNCHANGED <<attempt, sleeps>>
           ELSE /\ sleeps' = Append(sleeps, Delay * 2)
                /\ rested' = Some(Delay * 2)
                /\ attempt' = attempt + 1
                /\ UNCHANGED <<gp_result, pc>>
    /\ UNCHANGED <<scraper_vars, arg_vars, loop_vars, hist_vars, paper_data,
                   stop_reason, gp_caller, retries, side_vars, save_calls, runs>>

\* A direct call get_page(url, retries=n) on an idle scraper.
GetPageCall(n) ==
    /\ pc = "idle"
    /\ pc' = IF n >= 1 THEN "get_page" ELSE "returned"
    /\ BeginGetPage("direct", n)
    /\ UNCHANGED <<scraper_vars, arg_vars, loop_vars, hist_vars, last_answer,
                   paper_data, stop_reason, side_vars, rested, save_calls, runs>>

\* ------------------------------------------------------------------------
\* scrape_papers
\* ------------------------------------------------------------------------

\* The scan begins at start number n (lines 295-305).
StartScan(n) ==
    /\ start_number' = n
    /\ current_number' = n
    /\ papers_checked' = 0 /\ papers_found' = 0 /\ consecutive_failures' = 0
    /\ pc' = "head"

\* The entry of scrape_papers (lines 265-279): with a start number the scan
\* begins at once, without one the frontier probe begins.  self.papers is
\* left as it is.  While the probe runs the start number is None: pc = "probe".
EnterScrapePapers(mp, mg, sn, dl) ==
    /\ max_papers' = mp /\ max_pages' = mg /\ download_pdfs' = dl
    /\ start_arg' = sn
    /\ runs' = runs + 1
    /\ examined' = <<>> /\ outcomes' = <<>>
    /\ stop_reason' = "none"
    /\ IF sn.some
       THEN /\ StartScan(sn.v)
            /\ UNCHANGED test_num
       ELSE /\ test_num' = ProbeStart
            /\ pc' = "probe"
            /\ UNCHANGED <<start_number, loop_vars>>
    /\ UNCHANGED <<scraper_vars, gp_vars, last_answer, paper_data, probed,
                   interrupted, date_match, query_match, rested, save_calls>>

\* scrape_papers is called on a new scraper.
ScrapePapers(mp, mg, sn, dl) ==
    /\ pc = "idle"
    /\ EnterScrapePapers(mp, mg, sn, dl)

\* scrape_papers is called again on a scraper whose earlier call has returned.
ScrapePapersAgain(mp, mg, sn, dl) ==
    /\ pc = "done"
    /\ runs < MaxRuns
    /\ EnterScrapePapers(mp, mg, sn, dl)

\* A KeyboardInterrupt raised while a request is under way.
Interrupt == Failure("KeyboardInterrupt")

\* The answers the server can give to the HEAD request of a probe.
ProbeAnswers ==
    ErrorAnswers \cup {Response(200, PageError), Response(301, PageError)}

\* Probe starting the scan at the probed ID itself, without the buffer of 10.
Probe_NoBuffer(answer) ==
    /\ pc = "probe"
    /\ probed' = Append(probed, test_num)
    /\ last_answer' = Some(answer)
    /\ rested' = Some(0)
    /\ interrupted' = (interrupted \/ answer = Interrupt)
    /\ IF answer.kind = "response" /\ answer.status = 200
       THEN /\ StartScan(test_num)
            /\ UNCHANGED test_num
       ELSE IF test_num - ProbeStep > ProbeStop
       THEN /\ test_num' = test_num - ProbeStep
            /\ UNCHANGED <<start_number, loop_vars, pc>>
       ELSE /\ StartScan(FallbackStart)
            /\ UNCHANGED test_num
    /\ UNCHANGED <<scraper_vars, arg_vars_but_start, gp_vars, hist_vars, paper_data,
                   stop_reason, start_arg, date_match, query_match, save_calls,
                   runs>>

\* One iteration of the frontier probe (lines 280-289) and, when the loop
\* ends, the fallback (lines 291-293).  No delay follows the request.  The
\* bare "except" takes every exception raised in the request for a failed
\* probe, a KeyboardInterrupt included.
Probe(answer) ==
    /\ pc = "probe"
    /\ probed' = Append(probed, test_num)
    /\ last_answer' = Some(answer)
    /\ rested' = Some(0)
    /\ interrupted' = (interrupted \/ answer = Interrupt)
    /\ IF answer.kind = "response" /\ answer.status = 200
       THEN /\ StartScan(test_num + ProbeStep)
            /\ UNCHANGED test_num
       ELSE IF test_num - ProbeStep > ProbeStop
       THEN /\ test_num' = test_num - ProbeStep
            /\ UNCHANGED <<start_number, loop_vars, pc>>
       ELSE /\ StartScan(FallbackStart)
            /\ UNCHANGED test_num
    /\ UNCHANGED <<scraper_vars, arg_vars_but_start, gp_vars, hist_vars, paper_data,
                   stop_reason, start_arg, date_match, query_match, save_calls,
                   runs>>

\* StopCheck with the accepted-count test written > instead of >=.
StopCheck_PapersStrict ==
    IF TruthyInt(max_papers) /\ papers_found > max_papers.v THEN "max_papers"
    ELSE IF TruthyInt(max_pages) /\ papers_checked >= max_pages.v THEN "max_pages"
    ELSE IF consecutive_failures >= MaxConsecutiveFailures THEN "failures"
    ELSE IF current_number <= 0 THEN "exhausted"
    ELSE "none"

\* StopCheck with the failure test written > instead of >=.
StopCheck_FailuresStrict ==
    IF TruthyInt(max_papers) /\ papers_found >= max_papers.v THEN "max_papers"
    ELSE IF TruthyInt(max_pages) /\ papers_checked >= max_pages.v THEN "max_pages"
    ELSE IF consecutive_failures > MaxConsecutiveFailures THEN "failures"
    ELSE IF current_number <= 0 THEN "exhausted"
    ELSE "none"

\* StopCheck without the test of the cursor.
StopCheck_NoExhaustion ==
    IF TruthyInt(max_papers) /\ papers_found >= max_papers.v THEN "max_papers"
    ELSE IF TruthyInt(max_pages) /\ papers_checked >= max_pages.v THEN "max_pages"
    ELSE IF consecutive_failures >= MaxConsecutiveFailures THEN "failures"
    ELSE "none"

\* The break the stopping conditions take at the loop head, "none" when the
\* iteration goes on (lines 309-323).
StopCheck ==
    IF TruthyInt(max_papers) /\ papers_found >= max_papers.v THEN "max_papers"
    ELSE IF TruthyInt(max_pages) /\ papers_checked >= max_pages.v THEN "max_pages"
    ELSE IF consecutive_failures >= MaxConsecutiveFailures THEN "failures"
    ELSE IF current_number <= 0 THEN "exhausted"
    ELSE "none"

\* The loop head: stop, or count the document and call
\* extract_paper_metadata(current_number), which calls get_page (lines 307-328,
\* 49-52).
LoopHead ==
    /\ pc = "head"
    /\ IF StopCheck # "none"
       THEN /\ stop_reason' = StopCheck
            /\ pc' = "done"
            /\ UNCHANGED <<loop_vars, gp_vars, hist_vars>>
       ELSE /\ papers_checked' = papers_checked + 1
            /\ examined' = Append(examined, current_number)
            /\ BeginGetPage("extract", DefaultRetries)
            /\ pc' = "get_page"
            /\ UNCHANGED <<current_number, papers_found, consecutive_failures,
                           outcomes, stop_reason>>
    /\ UNCHANGED <<scraper_vars, arg_vars, last_answer, paper_data, side_vars,
                   rested, save_calls, runs>>

\* ExtractCatches without the clause "except Exception".
ExtractCatches_RequestOnly(exc) == exc \in RequestExceptions

\* The except clauses of extract_paper_metadata (lines 132-137): every
\* requests.RequestException and every other Exception is caught.
ExtractCatches(exc) == exc \in RequestExceptions \/ exc = "Exception"

\* What the try block of extract_paper_metadata does with the finished
\* get_page call (lines 52-130): the value it returns or the exception raised
\* in it.
ExtractTry(paper_number, result) ==
    IF result.kind = "raised" THEN [kind |-> "raise", exc |-> result.val.exc]
    ELSE IF ~result.val.some THEN [kind |-> "raise", exc |-> "Exception"]
    ELSE IF result.val.v.page.malformed THEN [kind |-> "raise", exc |-> "Exception"]
    ELSE IF result.val.v.status = 404 THEN [kind |-> "return", val |-> None]
    ELSE [kind |-> "return", val |-> Some(PaperData(paper_number, result.val.v.page))]

\* extract_paper_metadata(paper_number) once get_page has finished: its return
\* value, or the exception that leaves it.
ExtractPaperMetadata(paper_number, result) ==
    LET t == ExtractTry(paper_number, result)
    IN  IF t.kind = "raise" /\ ExtractCatches(t.exc)
        THEN [kind |-> "return", val |-> None]
        ELSE t

\* extract_paper_metadata returns to the loop (line 328); an exception leaving
\* it would leave scrape_papers.
Extract ==
    /\ pc = "extract"
    /\ LET r == ExtractPaperMetadata(current_number, gp_result)
       IN  IF r.kind = "return"
           THEN paper_data' = r.val /\ pc' = "body"
           ELSE paper_data' = None /\ pc' = "crashed"
    /\ EndGetPage
    /\ UNCHANGED <<scraper_vars, arg_vars, loop_vars, hist_vars, last_answer,
                   stop_reason, side_vars, rested, save_calls, runs>>

\* A file name nber_papers_<stem>_<n>.json; n is the accepted count of a
\* progress file and the time of the call for the others.
FileName(stem, n) == [stem |-> stem, n |-> n]

\* f"nber_papers_progress_{papers_found}.json"
ProgressFile(n) == FileName("progress", n)

\* SaveToJson writing only the records accepted since the last checkpoint.
SaveToJson_Increment(name, io_ok) ==
    /\ files' = IF io_ok
                THEN {f \in files : f.name # name}
                         \cup {[name |-> name,
                                content |-> SubSeq(papers', Len(papers') - CheckpointEvery + 1,
                                                   Len(papers'))]}
                ELSE files
    /\ save_calls' = Append(save_calls,
                            [name |-> name,
                             content |-> SubSeq(papers', Len(papers') - CheckpointEvery + 1,
                                                Len(papers')),
                             ok |-> io_ok])

\* save_to_json(filename) (lines 361-370): the file holds all of self.papers,
\* or the write fails, the file is not written and False is returned.
SaveToJson(name, io_ok) ==
    /\ files' = IF io_ok
                THEN {f \in files : f.name # name}
                         \cup {[name |-> name, content |-> papers']}
                ELSE files
    /\ save_calls' = Append(save_calls,
                            [name |-> name, content |-> papers', ok |-> io_ok])

\* FinishAccepted with a failed checkpoint write ending the scan.
FinishAccepted_AbortOnFailure(io_ok) ==
    /\ IF papers_found' % CheckpointEvery = 0
       THEN SaveToJson(ProgressFile(papers_found'), io_ok)
       ELSE UNCHANGED <<files, save_calls>>
    /\ current_number' = current_number - 1
    /\ pc' = IF papers_found' % CheckpointEvery = 0 /\ ~io_ok THEN "crashed" ELSE "head"

\* The end of an accepting iteration (lines 348-352).
FinishAccepted(io_ok) ==
    /\ IF papers_found' % CheckpointEvery = 0
       THEN SaveToJson(ProgressFile(papers_found'), io_ok)
       ELSE UNCHANGED <<files, save_calls>>
    /\ current_number' = current_number - 1
    /\ pc' = "head"

\* Accepts with "or" in place of "and".
Accepts_Or(pd) ==
    MatchesSearchQuery(search_query, pd) \/ MatchesDateRange(start_date, end_date, pd)

\* if self.matches_search_query(paper_data) and self.matches_date_range(paper_data)
Accepts(pd) ==
    MatchesSearchQuery(search_query, pd) /\ MatchesDateRange(start_date, end_date, pd)

\* OnNull without the decrement of the cursor before "continue".
OnNull_NoDecrement ==
    /\ consecutive_failures' = consecutive_failures + 1
    /\ current_number' = current_number
    /\ outcomes' = Append(outcomes, "null")
    /\ pc' = "head"
    /\ UNCHANGED <<papers, files, save_calls, papers_found, gp_vars>>

\* The iteration for a null extraction (lines 330-333).
OnNull ==
    /\ consecutive_failures' = consecutive_failures + 1
    /\ current_number' = current_number - 1
    /\ outcomes' = Append(outcomes, "null")
    /\ pc' = "head"
    /\ UNCHANGED <<papers, files, save_calls, papers_found, gp_vars>>

\* OnRejected with the failure streak reset only for accepted records.
OnRejected_NoReset ==
    /\ consecutive_failures' = consecutive_failures
    /\ current_number' = current_number - 1
    /\ outcomes' = Append(outcomes, "rejected")
    /\ pc' = "head"
    /\ UNCHANGED <<papers, files, save_calls, papers_found, gp_vars>>

\* The iteration for a record that fails a filter (lines 335, 338, 352).
OnRejected ==
    /\ consecutive_failures' = 0
    /\ current_number' = current_number - 1
    /\ outcomes' = Append(outcomes, "rejected")
    /\ pc' = "head"
    /\ UNCHANGED <<papers, files, save_calls, papers_found, gp_vars>>

\* OnAccepted putting the newest record first.
OnAccepted_Prepend(io_ok) ==
    /\ consecutive_failures' = 0
    /\ papers' = <<paper_data.v>> \o papers
    /\ papers_found' = papers_found + 1
    /\ outcomes' = Append(outcomes, "accepted")
    /\ IF download_pdfs /\ TruthyStr(paper_data.v.pdf_url)
       THEN /\ BeginGetPage("download", DefaultRetries)
            /\ pc' = "get_page"
            /\ UNCHANGED <<files, save_calls, current_number>>
       ELSE /\ FinishAccepted(io_ok)
            /\ UNCHANGED gp_vars

\* The iteration for a record that passes both filters (lines 335-352), up to
\* the call of get_page in download_pdf when a PDF is downloaded.
OnAccepted(io_ok) ==
    /\ consecutive_failures' = 0
    /\ papers' = Append(papers, paper_data.v)
    /\ papers_found' = papers_found + 1
    /\ outcomes' = Append(outcomes, "accepted")
    /\ IF download_pdfs /\ TruthyStr(paper_data.v.pdf_url)
       THEN /\ BeginGetPage("download", DefaultRetries)
            /\ pc' = "get_page"
            /\ UNCHANGED <<files, save_calls, current_number>>
       ELSE /\ FinishAccepted(io_ok)
            /\ UNCHANGED gp_vars

\* The loop body after extract_paper_metadata has returned (lines 330-352).
LoopBody(io_ok) ==
    /\ pc = "body"
    /\ IF ~paper_data.some THEN OnNull
       ELSE IF Accepts(paper_data.v) THEN OnAccepted(io_ok)
       ELSE OnRejected
    /\ UNCHANGED <<search_query, start_date, end_date, downloaded, arg_vars,
                   papers_checked, paper_data, stop_reason, examined, last_answer,
                   side_vars, rested, runs>>

\* DownloadPdf with a failed download taking the record back.
DownloadPdf_Rollback(write_ok, io_ok) ==
    /\ pc = "download"
    /\ downloaded' = IF gp_result.kind = "returned" /\ write_ok
                     THEN downloaded \cup {paper_data.v.paper_id}
                     ELSE downloaded
    /\ papers' = IF gp_result.kind = "returned" /\ write_ok
                 THEN papers
                 ELSE SubSeq(papers, 1, Len(papers) - 1)
    /\ papers_found' = IF gp_result.kind = "returned" /\ write_ok
                       THEN papers_found
                       ELSE papers_found - 1
    /\ FinishAccepted(io_ok)
    /\ EndGetPage
    /\ UNCHANGED <<search_query, start_date, end_date, arg_vars, papers_checked,
                   consecutive_failures, hist_vars, last_answer, paper_data,
                   stop_reason, side_vars, rested, runs>>

\* download_pdf once its get_page call has finished (lines 251-263), and the
\* rest of the iteration (lines 348-352).  Every exception is caught; the PDF
\* is written when the fetch returned and the file write succeeds.
DownloadPdf(write_ok, io_ok) ==
    /\ pc = "download"
    /\ downloaded' = IF gp_result.kind = "returned" /\ write_ok
                     THEN downloaded \cup {paper_data.v.paper_id}
                     ELSE downloaded
    /\ papers' = papers
    /\ papers_found' = papers_found
    /\ FinishAccepted(io_ok)
    /\ EndGetPage
    /\ UNCHANGED <<search_query, start_date, end_date, arg_vars, papers_checked,
                   consecutive_failures, hist_vars, last_answer, paper_data,
                   stop_reason, side_vars, rested, runs>>

\* ------------------------------------------------------------------------
\* Specifications
\* ------------------------------------------------------------------------

\* One run of scrape_papers on a new scraper.
Next ==
    \/ \E a \in CallArgs, dl \in BOOLEAN : ScrapePapers(a[1], a[2], a[3], dl)
    \/ LoopHead
    \/ \E answer \in Answers : GetPageAttempt(answer)
    \/ Extract
    \/ \E io_ok \in BOOLEAN : LoopBody(io_ok)
    \/ \E write_ok \in BOOLEAN, io_ok \in BOOLEAN : DownloadPdf(write_ok, io_ok)

Spec == Init /\ [][Next]_vars

\* One direct call of get_page on a new scraper.
NextGetPage ==
    \/ \E n \in 1..MaxRetriesArg : GetPageCall(n)
    \/ \E answer \in Answers : GetPageAttempt(answer)

SpecGetPage == Init /\ [][NextGetPage]_vars

\* ------------------------------------------------------------------------
\* Vocabulary of the properties
\* ------------------------------------------------------------------------

\* The terminal state of the crawl controller that a break stands for.
StoppedState(reason) ==
    CASE reason \in {"max_papers", "max_pages"} -> "STOPPED_LIMIT"
      [] reason = "failures"                    -> "STOPPED_FAILURES"
      [] reason = "exhausted"                   -> "STOPPED_EXHAUSTED"
      [] OTHER                                  -> "SCANNING"

\* The IDs of the records of a result set, in order.
PaperIds(ps) == [i \in DOMAIN ps |-> ps[i].paper_id]

\* The examined IDs whose outcome is o, in the order of examination.
RECURSIVE IdsWithOutcome(_, _)
IdsWithOutcome(o, k) ==
    IF k = 0 THEN <<>>
    ELSE IdsWithOutcome(o, k - 1) \o
         (IF outcomes[k] = o THEN <<examined[k]>> ELSE <<>>)

\* The number of null outcomes at the end of a sequence of outcomes.
RECURSIVE TrailingNulls(_)
TrailingNulls(os) ==
    IF os = <<>> \/ os[Len(os)] # "null" THEN 0
    ELSE 1 + TrailingNulls(SubSeq(os, 1, Len(os) - 1))

\* ------------------------------------------------------------------------
\* Properties
\* ------------------------------------------------------------------------

\* C1: every record of the result set passes matches_search_query and
\* matches_date_range under the scraper's query and date bounds, and the
\* result set holds exactly the documents whose extraction was non-null and
\* passed both filters: nothing is appended for a null extraction or for a
\* rejected record.
C1_AcceptedRecordsMatch ==
    /\ \A i \in DOMAIN papers :
          /\ MatchesSearchQuery(search_query, papers[i])
          /\ MatchesDateRange(start_date, end_date, papers[i])
    /\ PaperIds(papers) = IdsWithOutcome("accepted", Len(outcomes))

\* C1 witness: with a query and date bounds set, a scan has accepted a record,
\* rejected another and met a null extraction.
C1_Witness ==
    /\ search_query # <<>> /\ start_date.some
    /\ papers # <<>>
    /\ \E k \in DOMAIN outcomes : outcomes[k] = "rejected"
    /\ \E k \in DOMAIN outcomes : outcomes[k] = "null"

C3_FiftyNullsStop ==
    ( /\ max_papers = None /\ max_pages = None
      /\ Len(outcomes) >= MaxConsecutiveFailures
      /\ \A k \in 1..MaxConsecutiveFailures : outcomes[k] = "null" ) =>
        /\ Len(outcomes) = MaxConsecutiveFailures
        /\ pc \in {"head", "done"}
        /\ current_number = start_number - MaxConsecutiveFailures
        /\ papers_checked = MaxConsecutiveFailures
        /\ papers_found = 0 /\ papers = <<>>
        /\ \A k \in DOMAIN examined :
              examined[k] # start_number - MaxConsecutiveFailures
        /\ pc = "head" => StopCheck = "failures"
        /\ pc = "done" => StoppedState(stop_reason) = "STOPPED_FAILURES"
        /\ start_number = 200 => current_number = 150

\* C3 witness: the scan without limits from 200 has ended at cursor 150 after
\* 50 null extractions.
C3_Witness ==
    /\ pc = "done" /\ stop_reason = "failures"
    /\ max_papers = None /\ max_pages = None
    /\ start_number = 200 /\ current_number = 150
    /\ papers_checked = 50 /\ papers_found = 0
    /\ \A k \in DOMAIN outcomes : outcomes[k] = "null"

\* C4: for every max_papers that is not None, 0 included, no more than
\* max_papers records are accepted in a run, and for every max_pages that is
\* not None, 0 included, no more than max_pages documents are checked.
C4_LimitsRespected ==
    /\ max_papers.some => papers_found <= max_papers.v
    /\ max_pages.some => papers_checked <= max_pages.v

\* The stop conditions as stated for the crawl controller: a limit that is
\* set is reached when the count is at least the limit.
AcceptedLimitReached == max_papers.some /\ papers_found >= max_papers.v

CheckedLimitReached == max_pages.some /\ papers_checked >= max_pages.v

FailureThresholdReached == consecutive_failures >= MaxConsecutiveFailures

CursorExhausted == current_number <= 0

\* The terminal state of the first stop condition that holds, in the order
\* accepted limit, checked limit, failure threshold, cursor.
FirstStop ==
    IF AcceptedLimitReached \/ CheckedLimitReached THEN "STOPPED_LIMIT"
    ELSE IF FailureThresholdReached THEN "STOPPED_FAILURES"
    ELSE IF CursorExhausted THEN "STOPPED_EXHAUSTED"
    ELSE "SCANNING"

\* C5: the step from every loop head is decided by the stop conditions in the
\* order accepted limit, checked limit, failure threshold, cursor <= 0: when
\* one holds the scan ends in the terminal state of the first that holds,
\* without counting or extracting a document; when none holds the document
\* is counted and extracted.
C5_StopConditionsAtHead ==
    [][ pc = "head" =>
          IF FirstStop # "SCANNING"
          THEN /\ pc' = "done"
               /\ StoppedState(stop_reason') = FirstStop
               /\ papers_checked' = papers_checked
               /\ examined' = examined
          ELSE /\ pc' = "get_page"
               /\ papers_checked' = papers_checked + 1
               /\ examined' = Append(examined, current_number) ]_vars

\* The statement of C5 for the limits that are None or at least 1.
C5_HoldsForPositiveLimits ==
    [][ ( /\ pc = "head"
          /\ max_papers.some => max_papers.v >= 1
          /\ max_pages.some => max_pages.v >= 1 ) =>
          IF FirstStop # "SCANNING"
          THEN /\ pc' = "done"
               /\ StoppedState(stop_reason') = FirstStop
               /\ (AcceptedLimitReached => stop_reason' = "max_papers")
               /\ papers_checked' = papers_checked
               /\ examined' = examined
          ELSE /\ pc' = "get_page"
               /\ papers_checked' = papers_checked + 1
               /\ examined' = Append(examined, current_number) ]_vars

\* C6: consecutive_failures is the number of null outcomes at the end of the
\* examined documents, and the loop body adds one to it for a null extraction
\* and sets it to 0 for every non-null one, accepted or rejected.
C6_FailureStreak ==
    /\ [](consecutive_failures = TrailingNulls(outcomes))
    /\ [][ pc = "body" =>
             consecutive_failures' =
                 IF paper_data.some THEN 0 ELSE consecutive_failures + 1 ]_vars

\* C6 witness: at a loop head after a null, a rejected record and a null
\* again, the streak is 1.
C6_Witness ==
    /\ pc = "head"
    /\ Len(outcomes) = 3
    /\ outcomes[1] = "null" /\ outcomes[2] = "rejected" /\ outcomes[3] = "null"
    /\ consecutive_failures = 1

\* C7: the cursor never increases in a run; the k-th examined ID is
\* start_number - k + 1, so no ID is examined twice; at every loop head the
\* cursor is start_number - papers_checked; and every iteration that returns
\* to the loop head has lowered the cursor by one.
C7_CursorDecreases ==
    /\ [](\A k \in DOMAIN examined : examined[k] = start_number - k + 1)
    /\ [](pc \in {"head", "done"} => current_number = start_number - papers_checked)
    /\ [][ /\ pc # "idle" => current_number' <= current_number
           /\ (pc \in {"body", "download"} /\ pc' = "head") =>
                 current_number' = current_number - 1 ]_vars

\* C7 witness: a loop head after one null, one rejected and one accepted
\* document, three below the start.
C7_Witness ==
    /\ pc = "head"
    /\ papers_checked = 3 /\ current_number = start_number - 3
    /\ \E i, j, k \in DOMAIN outcomes :
          outcomes[i] = "null" /\ outcomes[j] = "rejected" /\ outcomes[k] = "accepted"

\* C8: whatever get_page met (a page, a malformed page, an HTTP error status,
\* a connection failure, a timeout), extract_paper_metadata returns None or a
\* record with the ID asked for; no exception leaves it, the scan is not
\* aborted, and after None the loop goes on with the next lower ID.
C8_ExtractNeverRaises ==
    /\ [](pc # "crashed")
    /\ [][ pc = "extract" =>
             /\ pc' = "body"
             /\ ~paper_data'.some \/ paper_data'.v.paper_id = current_number
             /\ gp_result.kind = "raised" => ~paper_data'.some
             /\ (gp_result.kind = "returned" /\ gp_result.val.v.page.malformed)
                   => ~paper_data'.some ]_vars
    /\ [][ (pc = "body" /\ ~paper_data.some) =>
             pc' = "head" /\ current_number' = current_number - 1 ]_vars

\* C8 witness: extraction has returned None for a malformed page, and the
\* scan is in the loop body.
C8_Witness ==
    /\ pc = "body"
    /\ ~paper_data.some
    /\ last_answer = Some(Response(200, PageMalformed))

\* C9: in a call get_page(url, retries=n), n >= 1: while the call runs, fewer
\* than n attempts have failed and each was followed by a sleep of twice the
\* delay; a call that returned made at most n attempts, returns the answer of
\* its last attempt, which is the only one that succeeded, and slept the delay
\* after it; a call that raised made n attempts, all failed, slept twice the
\* delay after each but the last and raises the error of the last.
C9_GetPageRetries ==
    (pc # "idle" /\ gp_caller # "none") =>
        LET doubled(k) == [i \in 1..k |-> Delay * 2]
        IN  /\ retries >= 1
            /\ attempt <= retries - 1
            /\ gp_result.kind = "pending" =>
                  /\ sleeps = doubled(attempt)
                  /\ attempt > 0 => AttemptException(last_answer.v).some
            /\ gp_result.kind = "returned" =>
                  /\ sleeps = Append(doubled(attempt), Delay)
                  /\ gp_result.val = last_answer
                  /\ ~AttemptException(last_answer.v).some
            /\ gp_result.kind = "raised" =>
                  /\ attempt = retries - 1
                  /\ sleeps = doubled(retries - 1)
                  /\ Some(gp_result.val) = AttemptException(last_answer.v)

\* C9 witness: a call with retries = 3 has returned at its third attempt.
C9_Witness ==
    /\ pc = "returned"
    /\ retries = 3
    /\ gp_result.kind = "returned"
    /\ sleeps = <<Delay * 2, Delay * 2, Delay>>

\* C9 second case reached: a call with retries = 2 has raised.
C9_RaisedReached ==
    /\ pc = "returned" /\ retries = 2 /\ gp_result.kind = "raised"

\* C10: when the server answers a document request with 404, get_page returns
\* that response after this single attempt, without a retry and without
\* raising.
C10_NotFoundReturned ==
    ( /\ pc \in {"get_page", "extract"}
      /\ gp_caller = "extract"
      /\ last_answer = Some(NotFound) ) =>
        /\ gp_result = [kind |-> "returned", val |-> Some(NotFound)]
        /\ attempt = 0
        /\ sleeps = <<Delay>>

\* ------------------------------------------------------------------------
\* C11: the delay between requests
\* ------------------------------------------------------------------------

\* The next step issues a request: an attempt of get_page or a frontier probe.
RequestDue == (pc = "get_page" /\ gp_result = Pending) \/ pc = "probe"

\* C11: requests are issued one at a time, and after every completed request,
\* the last failed attempt of a fetch and every frontier probe included, at
\* least the inter-request delay is slept before the next request is issued.
C11_DelayBeforeEveryRequest ==
    RequestDue => (rested = None \/ rested.v >= Delay)

\* ------------------------------------------------------------------------
\* A long scan: periodic checkpoints and PDF downloads
\* ------------------------------------------------------------------------

\* The start number of the long scan, which runs down to ID 1.
LongStart == 21

\* The number of documents of a long scan, from the tenth on, for which the
\* server may answer anything and the PDF may fail to be written; every other
\* document is an on-topic page whose PDF can be written.
OddSpan == 2

\* The IDs of the documents that may be odd.
OddIds ==
    {n \in 1..LongStart : /\ n <= LongStart - CheckpointEvery + 1
                          /\ n > LongStart - CheckpointEvery + 1 - OddSpan}

\* The answers of the server during a long scan.
LongAnswers ==
    IF current_number \in OddIds
    THEN ErrorAnswers \cup {Response(200, p) : p \in Pages}
    ELSE {Response(200, PageOnTopic)}

\* Whether the PDF file can be written during a long scan.
LongWrites == IF current_number \in OddIds THEN BOOLEAN ELSE {TRUE}

\* One long run of scrape_papers on a new scraper.
NextCheckpoint ==
    \/ \E dl \in BOOLEAN : ScrapePapers(None, None, Some(LongStart), dl)
    \/ LoopHead
    \/ \E answer \in LongAnswers : GetPageAttempt(answer)
    \/ Extract
    \/ \E io_ok \in BOOLEAN : LoopBody(io_ok)
    \/ \E write_ok \in LongWrites, io_ok \in BOOLEAN : DownloadPdf(write_ok, io_ok)

SpecCheckpoint == Init /\ [][NextCheckpoint]_vars

\* ------------------------------------------------------------------------
\* C12, C13, C18: periodic checkpoints
\* ------------------------------------------------------------------------

\* The acceptances whose iteration has ended: the record accepted last is not
\* counted while its PDF is being downloaded.
CompletedAcceptances ==
    IF pc \in {"get_page", "download"} /\ gp_caller = "download"
    THEN papers_found - 1
    ELSE papers_found

\* The latest call of save_to_json, after a step.
LastSaveCall == save_calls'[Len(save_calls')]

C13_FailedWriteStep ==
    (Len(save_calls') = Len(save_calls) + 1 /\ ~LastSaveCall.ok) =>
        /\ pc' = "head"
        /\ current_number' = current_number - 1
        /\ papers' = IF pc = "body" THEN Append(papers, paper_data.v) ELSE papers
        /\ papers_found' = IF pc = "body" THEN papers_found + 1 ELSE papers_found
        /\ papers_found' % CheckpointEvery = 0
        /\ papers_checked' = papers_checked
        /\ consecutive_failures' = 0
        /\ files' = files
        /\ stop_reason' = stop_reason

\* After a failed checkpoint write the next checkpoint is attempted ten
\* acceptances later.
C13_NextCheckpointAttempted ==
    \A i \in DOMAIN save_calls :
        (~save_calls[i].ok /\ CompletedAcceptances >= (i + 1) * CheckpointEvery) =>
            /\ Len(save_calls) > i
            /\ save_calls[i + 1].name = ProgressFile((i + 1) * CheckpointEvery)

\* C13: a failing checkpoint write is reported as a failure value and does not
\* abort the scan: the counters and the result set are as after a successful
\* write, no file is written, and the next periodic checkpoint is attempted as
\* usual.
C13_FailedWriteGoesOn ==
    [][C13_FailedWriteStep]_vars /\ []C13_NextCheckpointAttempted

\* The first checkpoint write failed, the second was attempted and the scan
\* has ended at the last ID.
C13_Witness ==
    /\ Len(save_calls) = 2
    /\ ~save_calls[1].ok
    /\ pc = "done"
    /\ stop_reason = "exhausted"

\* C18: when the PDF download of an accepted record fails, the record stays in
\* the result set, the accepted count keeps its incremented value, the
\* periodic checkpoint due for that acceptance is still attempted and the
\* scan goes on with the next ID.
C18_FailedDownloadKeepsRecord ==
    [][ (pc = "download" /\ paper_data.v.paper_id \notin downloaded') =>
          /\ papers' = papers
          /\ papers[Len(papers)] = paper_data.v
          /\ papers_found' = papers_found
          /\ (papers_found % CheckpointEvery = 0) =>
                 /\ Len(save_calls') = Len(save_calls) + 1
                 /\ LastSaveCall.name = ProgressFile(papers_found)
                 /\ LastSaveCall.content = papers
          /\ current_number' = current_number - 1
          /\ pc' = "head" ]_vars

\* The PDF of the tenth accepted record could not be downloaded, its
\* checkpoint was attempted, and later records were accepted.
C18_Witness ==
    /\ download_pdfs
    /\ save_calls # <<>>
    /\ Len(papers) > CheckpointEvery
    /\ TruthyStr(papers[CheckpointEvery].pdf_url)
    /\ papers[CheckpointEvery].paper_id \notin downloaded

\* ------------------------------------------------------------------------
\* C16: the frontier probe
\* ------------------------------------------------------------------------

\* One short run of scrape_papers on a new scraper, with or without a start
\* number.
NextProbe ==
    \/ \E sn \in {None, Some(0), Some(100)}, dl \in BOOLEAN :
           ScrapePapers(None, Some(1), sn, dl)
    \/ \E answer \in ProbeAnswers : Probe(answer)
    \/ LoopHead
    \/ \E answer \in Answers : GetPageAttempt(answer)
    \/ Extract
    \/ \E io_ok \in BOOLEAN : LoopBody(io_ok)
    \/ \E write_ok \in BOOLEAN, io_ok \in BOOLEAN : DownloadPdf(write_ok, io_ok)

SpecProbe == Init /\ [][NextProbe]_vars

\* The first k IDs of the probe range: 33500, 33490, ...
ProbeRange(k) == [i \in 1..k |-> ProbeStart - (i - 1) * ProbeStep]

\* The number of IDs in the probe range.
ProbeCount == (ProbeStart - ProbeStop + ProbeStep - 1) \div ProbeStep

\* The answer to a probe reports an existing document.
ReportsExisting(answer) == answer.kind = "response" /\ answer.status = 200

\* The probed IDs are the probe range from its top, and the scan starts at the
\* supplied number without a probe, or 10 above the last probed ID, or at the
\* fallback once the whole range is probed.
C16_ProbedIds ==
    /\ probed = ProbeRange(Len(probed))
    /\ Len(probed) <= ProbeCount
    /\ pc \notin {"idle", "probe"} =>
          IF start_arg.some
          THEN probed = <<>> /\ start_number = start_arg.v
          ELSE /\ probed # <<>>
               /\ \/ start_number = probed[Len(probed)] + ProbeStep
                  \/ Len(probed) = ProbeCount /\ start_number = FallbackStart

\* What one probe does: an existing document starts the scan 10 above it, any
\* other answer and any error moves on to the next ID of the range, and after
\* the last ID of the range the scan starts at the fallback.
C16_ProbeStep ==
    pc = "probe" =>
        /\ probed' = Append(probed, test_num)
        /\ IF ReportsExisting(last_answer'.v)
           THEN /\ pc' = "head"
                /\ start_number' = test_num + ProbeStep
                /\ current_number' = test_num + ProbeStep
           ELSE IF Len(probed') < ProbeCount
           THEN /\ pc' = "probe"
                /\ test_num' = test_num - ProbeStep
           ELSE /\ pc' = "head"
                /\ start_number' = FallbackStart
                /\ current_number' = FallbackStart

\* C16: without a start number the probe tries 33500, 33490, ... in turn,
\* stops at the first ID p that exists and starts the scan at p + 10; a probe
\* that errors counts as not existing; when no ID of the range exists the scan
\* starts at 33200.  With a start number no probe is made and the scan starts
\* at exactly that number.
C16_FrontierProbe ==
    []C16_ProbedIds /\ [][C16_ProbeStep]_vars

\* The first two probes found nothing, the third found a document, and the
\* scan examined the ID 10 above it.
C16_Witness ==
    /\ Len(probed) = 3
    /\ start_number = ProbeStart - 2 * ProbeStep + ProbeStep
    /\ examined = <<start_number>>
    /\ pc = "done"

\* No probed ID existed and the scan examined the fallback ID.
C16_FallbackReached ==
    /\ Len(probed) = ProbeCount
    /\ examined = <<FallbackStart>>
    /\ pc = "done"

\* ------------------------------------------------------------------------
\* C17: a second run on the same scraper
\* ------------------------------------------------------------------------

\* Runs of scrape_papers from SmallStart, one after another on one scraper.
NextRerun ==
    \/ \E mp \in {None, Some(1)} : ScrapePapers(mp, None, Some(SmallStart), FALSE)
    \/ \E mp \in {None, Some(1)} : ScrapePapersAgain(mp, None, Some(SmallStart), FALSE)
    \/ LoopHead
    \/ \E answer \in Answers : GetPageAttempt(answer)
    \/ Extract
    \/ \E io_ok \in BOOLEAN : LoopBody(io_ok)

SpecRerun == Init /\ [][NextRerun]_vars

\* C17: the result set scrape_papers returns holds exactly the records
\* accepted during that call, so its length is that run's accepted count, also
\* on a scraper that has completed an earlier run.
C17_ResultIsThisRun ==
    pc = "done" =>
        /\ Len(papers) = papers_found
        /\ PaperIds(papers) = IdsWithOutcome("accepted", Len(outcomes))

\* ------------------------------------------------------------------------
\* C19, C20: the date filter
\* ------------------------------------------------------------------------

\* Texts of dates, each with the calendar date yyyymmdd it denotes in the
\* format YYYY/MM/DD or YYYY-MM-DD, or None when it is in neither format.
DateCatalog ==
    {
      [ text |-> <<"2","0","2","2","/","0","5","/","0","1">>,
        date |-> Some(20220501) ],
      [ text |-> <<"2","0","2","2","-","0","5","-","0","1">>,
        date |-> Some(20220501) ],
      [ text |-> <<"2","0","2","2","/","0","1","/","0","1">>,
        date |-> Some(20220101) ],
      [ text |-> <<"2","0","2","2","-","0","1","-","0","1">>,
        date |-> Some(20220101) ],
      [ text |-> <<"2","0","2","1","-","1","2","-","3","1">>,
        date |-> Some(20211231) ],
      [ text |-> <<"2","0","2","3","-","0","1","-","0","1">>,
        date |-> Some(20230101) ],
      [ text |-> <<"2","0","2","3","/","1","/","1">>,
        date |-> Some(20230101) ],
      [ text |-> <<"2","0","2","4","-","0","2","-","2","9">>,
        date |-> Some(20240229) ],
      [ text |-> <<"2","0","2","3","-","0","2","-","2","9">>,
        date |-> None ],
      [ text |-> <<"2","0","2","2","/","1","3","/","4","5">>,
        date |-> None ],
      [ text |-> <<"2","0","2","2","-","0","5","/","0","1">>,
        date |-> None ],
      [ text |-> <<"2","0","2","2","0","5","0","1">>,
        date |-> None ],
      [ text |-> <<"M","a","y"," ","2","0","2","2">>,
        date |-> None ]
    }

\* The values of start_date, end_date and publication_date that are tried:
\* None, the empty string and every text of the catalog.
DateInputs == {None, Some(<<>>)} \cup {Some(e.text) : e \in DateCatalog}

\* A scraper constructed with any two bounds, and a record with any
\* publication date.
InitFilter ==
    /\ search_query = <<>>
    /\ start_date \in DateInputs
    /\ end_date \in DateInputs
    /\ \E d \in DateInputs :
          paper_data = Some([PaperData(1, PageOnTopic) EXCEPT !.publication_date = d])
    /\ papers = <<>>
    /\ files = {}
    /\ downloaded = {}
    /\ pc = "idle"
    /\ max_papers = None /\ max_pages = None
    /\ start_number = 0 /\ download_pdfs = FALSE
    /\ current_number = 0 /\ papers_checked = 0
    /\ papers_found = 0 /\ consecutive_failures = 0
    /\ stop_reason = "none"
    /\ gp_caller = "none" /\ retries = 0 /\ attempt = 0
    /\ sleeps = <<>> /\ last_answer = None /\ gp_result = Pending
    /\ examined = <<>>
    /\ outcomes = <<>>
    /\ start_arg = None
    /\ test_num = 0 /\ probed = <<>>
    /\ rested = None
    /\ save_calls = <<>>
    /\ runs = 0
    /\ interrupted = FALSE
    /\ date_match = None
    /\ query_match = None

\* A direct call matches_date_range(paper_data).
ApplyDateFilter ==
    /\ pc = "idle"
    /\ paper_data.some
    /\ date_match' = Some(MatchesDateRange(start_date, end_date, paper_data.v))
    /\ pc' = "returned"
    /\ UNCHANGED <<scraper_vars, arg_vars, loop_vars, gp_vars, hist_vars, last_answer,
                   paper_data, stop_reason, start_arg, test_num, probed, interrupted,
                   query_match, rested, save_calls, runs>>

SpecFilter == InitFilter /\ [][ApplyDateFilter]_vars

\* The calendar date a text denotes, None for the empty string and for a text
\* in neither format.
DateOf(text) ==
    IF \E e \in DateCatalog : e.text = text
    THEN (CHOOSE e \in DateCatalog : e.text = text).date
    ELSE None

\* The calendar date of an optional text, None when it is unset or empty.
DateOfInput(x) == IF TruthyStr(x) THEN DateOf(x.v) ELSE None

PubDate == DateOfInput(paper_data.v.publication_date)

StartBound == DateOfInput(start_date)

EndBound == DateOfInput(end_date)

\* C19: for a record whose publication date d is parseable the filter answers
\* true exactly when d >= start_date (if that is set and parseable) and
\* d <= end_date (if that is set and parseable), bounds included, whatever
\* the format of each of the three texts.
C19_DateRangeInclusive ==
    (date_match.some /\ PubDate.some) =>
        ( date_match.v <=>
            /\ (StartBound.some => PubDate.v >= StartBound.v)
            /\ (EndBound.some => PubDate.v <= EndBound.v) )

\* The filter was applied to 2022/05/01 with start 2022-01-01 and end
\* 2021-12-31 and answered false.
C19_Witness ==
    /\ date_match = Some(FALSE)
    /\ paper_data.v.publication_date = Some(<<"2","0","2","2","/","0","5","/","0","1">>)
    /\ start_date = Some(<<"2","0","2","2","-","0","1","-","0","1">>)
    /\ end_date = Some(<<"2","0","2","1","-","1","2","-","3","1">>)

\* The same record with end 2023-01-01 is answered true.
C19_InstanceTrue ==
    /\ date_match = Some(TRUE)
    /\ paper_data.v.publication_date = Some(<<"2","0","2","2","/","0","5","/","0","1">>)
    /\ start_date = Some(<<"2","0","2","2","-","0","1","-","0","1">>)
    /\ end_date = Some(<<"2","0","2","3","-","0","1","-","0","1">>)

\* C20: the filter fails open: it answers true when neither bound is set, when
\* the record has no publication date and when the publication date is in
\* neither format, and it answers false only for a parseable date that lies
\* outside a parseable bound.
C20_DateFilterFailsOpen ==
    date_match.some =>
        /\ ( \/ (~TruthyStr(start_date) /\ ~TruthyStr(end_date))
             \/ ~TruthyStr(paper_data.v.publication_date)
             \/ ~PubDate.some ) => date_match.v
        /\ ~date_match.v =>
              /\ PubDate.some
              /\ \/ StartBound.some /\ PubDate.v < StartBound.v
                 \/ EndBound.some /\ PubDate.v > EndBound.v

\* The filter answered true for a publication date in neither format although
\* it lies, read as text, beside bounds that are set and parseable.
C20_Witness ==
    /\ date_match = Some(TRUE)
    /\ paper_data.v.publication_date = Some(<<"2","0","2","2","/","1","3","/","4","5">>)
    /\ StartBound.some
    /\ EndBound.some

\* ------------------------------------------------------------------------
\* run_scraper.main, interrupts and errors
\* ------------------------------------------------------------------------

\* The file main writes after a complete scan: OUTPUT_FILENAME or
\* nber_papers<_query>_<time>.json.
OutputFile == FileName("output", 0)

\* nber_papers_interrupted_<time>.json and nber_papers_error_<time>.json
EmergencyFile(stem) == FileName(stem, 0)

\* main calls scrape_papers without a start number (run_scraper.py, lines
\* 47-55).
Main(mp, mg, dl) ==
    /\ pc = "idle"
    /\ EnterScrapePapers(mp, mg, None, dl)

\* main saves the result of a complete scan (run_scraper.py, lines 57-95).
MainSave(io_ok) ==
    /\ pc = "done"
    /\ papers' = papers
    /\ SaveToJson(OutputFile, io_ok)
    /\ pc' = "exit"
    /\ UNCHANGED <<search_query, start_date, end_date, downloaded, arg_vars,
                   loop_vars, gp_vars, hist_vars, last_answer, paper_data,
                   stop_reason, side_vars, rested, runs>>

\* EmergencySave without the test "if scraper.papers".
EmergencySave_Always(stem, io_ok) ==
    /\ papers' = papers
    /\ SaveToJson(EmergencyFile(stem), io_ok)

\* An except block of main (run_scraper.py, lines 97-110): the partial result
\* is saved when there is one.
EmergencySave(stem, io_ok) ==
    /\ papers' = papers
    /\ IF papers # <<>>
       THEN SaveToJson(EmergencyFile(stem), io_ok)
       ELSE UNCHANGED <<files, save_calls>>

\* A KeyboardInterrupt that no except clause of the scraper takes: raised at
\* the loop head, in get_page, in extract_paper_metadata and in download_pdf
\* (their clauses name Exception and RequestException), in the loop body and
\* in the probe loop outside a try block, or in main after the scan.  It
\* reaches "except KeyboardInterrupt" of main (run_scraper.py, lines 97-103).
KeyboardInterrupt(io_ok) ==
    /\ pc \in {"probe", "head", "get_page", "extract", "body", "download", "done"}
    /\ interrupted' = TRUE
    /\ EmergencySave("interrupted", io_ok)
    /\ EndGetPage
    /\ pc' = "exit_interrupted"
    /\ UNCHANGED <<search_query, start_date, end_date, downloaded, arg_vars,
                   loop_vars, hist_vars, last_answer, paper_data, stop_reason,
                   start_arg, test_num, probed, date_match, query_match, rested,
                   runs>>

\* An Exception raised by the code of the loop or of main itself, outside the
\* try blocks of the scraper.  It reaches "except Exception" of main
\* (run_scraper.py, lines 104-110).
FatalError(io_ok) ==
    /\ pc \in {"head", "body", "done"}
    /\ EmergencySave("error", io_ok)
    /\ pc' = "exit_error"
    /\ UNCHANGED <<search_query, start_date, end_date, downloaded, arg_vars,
                   loop_vars, gp_vars, hist_vars, last_answer, paper_data,
                   stop_reason, side_vars, rested, runs>>

\* matches_date_range has reached its try block (lines 196-203).
InDateTry(pd) ==
    /\ TruthyStr(start_date) \/ TruthyStr(end_date)
    /\ TruthyStr(pd.publication_date)

\* The result of matches_date_range when a KeyboardInterrupt is raised in it:
\* while the publication date is parsed the outer bare "except" returns True
\* (line 240); while a bound is parsed or compared the inner bare "except"
\* passes (lines 222, 235) and that bound is skipped.
InterruptedDateRange(where, pd) ==
    CASE where = "paper_date" -> TRUE
      [] where = "start"      -> MatchesDateRange(None, end_date, pd)
      [] where = "end"        -> TRUE

\* The parse of the publication date (lines 205-210), None when it has no
\* separator or strptime raises.
ParsePubDate(pub_date) ==
    IF Contains(pub_date, "/") THEN Strptime(pub_date, "/")
    ELSE IF Contains(pub_date, "-") THEN Strptime(pub_date, "-")
    ELSE None

\* matches_date_range reaches the point "where" of its try block: the parse
\* of the publication date, or the block of a bound that is set, which comes
\* after the parse of the publication date and, for the end bound, after a
\* start bound that did not reject.
DateTryReaches(where, pd) ==
    /\ InDateTry(pd)
    /\ where # "paper_date" => ParsePubDate(pd.publication_date.v).some
    /\ where = "start" => TruthyStr(start_date)
    /\ where = "end" => TruthyStr(end_date) /\ MatchesDateRange(start_date, None, pd)

\* The loop body when a KeyboardInterrupt is raised in matches_date_range: no
\* exception leaves it and the iteration goes on with its result (lines
\* 335-352).
LoopBodyInterrupted(where, io_ok) ==
    /\ pc = "body"
    /\ paper_data.some
    /\ MatchesSearchQuery(search_query, paper_data.v)
    /\ DateTryReaches(where, paper_data.v)
    /\ interrupted' = TRUE
    /\ IF InterruptedDateRange(where, paper_data.v) THEN OnAccepted(io_ok)
       ELSE OnRejected
    /\ UNCHANGED <<search_query, start_date, end_date, downloaded, arg_vars,
                   papers_checked, paper_data, stop_reason, examined, last_answer,
                   start_arg, test_num, probed, date_match, query_match, rested,
                   runs>>

\* One run of main.
NextMain ==
    \/ \E dl \in BOOLEAN : Main(None, Some(1), dl)
    \/ \E answer \in ProbeAnswers \cup {Interrupt} : Probe(answer)
    \/ LoopHead
    \/ \E answer \in Answers : GetPageAttempt(answer)
    \/ Extract
    \/ \E io_ok \in BOOLEAN : LoopBody(io_ok)
    \/ \E where \in {"paper_date", "start", "end"}, io_ok \in BOOLEAN :
           LoopBodyInterrupted(where, io_ok)
    \/ \E write_ok \in BOOLEAN, io_ok \in BOOLEAN : DownloadPdf(write_ok, io_ok)
    \/ \E io_ok \in BOOLEAN : MainSave(io_ok)
    \/ \E io_ok \in BOOLEAN : KeyboardInterrupt(io_ok)
    \/ \E io_ok \in BOOLEAN : FatalError(io_ok)

SpecMain == Init /\ [][NextMain]_vars

\* ------------------------------------------------------------------------
\* C14, C15: the end of an aborted run
\* ------------------------------------------------------------------------

\* The run was ended by an interrupt or by an error.
Aborted == pc \in {"exit_interrupted", "exit_error"}

\* The emergency file of the abort that ended the run.
AbortFile == EmergencyFile(IF pc = "exit_interrupted" THEN "interrupted" ELSE "error")

C15_InterruptEndsScan ==
    interrupted => pc = "exit_interrupted"

\* ------------------------------------------------------------------------
\* C21: the topic filter
\* ------------------------------------------------------------------------

\* The search queries that are tried, besides the empty one.
QueryCatalog ==
    { <<"A","I">>,
      <<"a","i">>,
      <<" ","A","i"," ">>,
      <<"l","a","b","o","r">>,
      <<"L","a","b","o","r">>,
      <<"c","+","+">>,
      <<"d","e","e","p"," ","l","e","a","r","n","i","n","g">> }

\* The titles that are tried.
TitleCatalog ==
    { <<"C","o","l","l","a","b","o","r","a","t","i","v","e">>,
      <<"L","a","b","o","r"," ","a","n","d"," ","A","I">>,
      <<"C","+","+"," ","c","o","d","e">>,
      <<"c","+","+","x">>,
      <<"T","r","a","d","e">>,
      <<"A","l","g","o","r","i","t","h","m","s">>,
      <<"L","A","B","O","R">> }

\* The abstracts that are tried.
AbstractCatalog ==
    { <<"A"," ","n","e","u","r","a","l"," ","n","e","t","w","o","r","k">>,
      <<"D","e","e","p"," ","L","e","a","r","n","i","n","g",".">>,
      <<"l","a","b","o","r">>,
      <<"C","h","a","i","r">>,
      <<"A","n"," ","a","l","g","o","r","i","t","h","m">> }

\* A scraper constructed with any query, and a record with any title and
\* abstract, each of which may be missing.
InitQuery ==
    /\ \E q \in QueryCatalog \cup {<<>>} :
          search_query = IF q # <<>> THEN Lower(q) ELSE <<>>
    /\ start_date = None
    /\ end_date = None
    /\ \E t \in {None} \cup {Some(x) : x \in TitleCatalog},
          a \in {None} \cup {Some(x) : x \in AbstractCatalog} :
          paper_data = Some([PaperData(1, PageOnTopic) EXCEPT !.title = t, !.abstract = a])
    /\ papers = <<>>
    /\ files = {}
    /\ downloaded = {}
    /\ pc = "idle"
    /\ max_papers = None /\ max_pages = None
    /\ start_number = 0 /\ download_pdfs = FALSE
    /\ current_number = 0 /\ papers_checked = 0
    /\ papers_found = 0 /\ consecutive_failures = 0
    /\ stop_reason = "none"
    /\ gp_caller = "none" /\ retries = 0 /\ attempt = 0
    /\ sleeps = <<>> /\ last_answer = None /\ gp_result = Pending
    /\ examined = <<>>
    /\ outcomes = <<>>
    /\ start_arg = None
    /\ test_num = 0 /\ probed = <<>>
    /\ rested = None
    /\ save_calls = <<>>
    /\ runs = 0
    /\ interrupted = FALSE
    /\ date_match = None
    /\ query_match = None

\* A direct call matches_search_query(paper_data), the first or a later one.
ApplyQueryFilter ==
    /\ pc \in {"idle", "returned"}
    /\ paper_data.some
    /\ query_match' = Some(MatchesSearchQuery(search_query, paper_data.v))
    /\ pc' = "returned"
    /\ UNCHANGED <<scraper_vars, arg_vars, loop_vars, gp_vars, hist_vars, last_answer,
                   paper_data, stop_reason, start_arg, test_num, probed, interrupted,
                   date_match, rested, save_calls, runs>>

SpecQuery == InitQuery /\ [][ApplyQueryFilter]_vars

\* lit occurs in text as a whole word, compared without case: neither the
\* character before the occurrence nor the one after it is a word character.
WholeWordOccurs(lit, text) ==
    \E i \in 1..(Len(text) - Len(lit) + 1) :
        /\ \A k \in 1..Len(lit) : LowerChar(text[i + k - 1]) = LowerChar(lit[k])
        /\ i = 1 \/ ~IsWordChar(text[i - 1])
        /\ i + Len(lit) > Len(text) \/ ~IsWordChar(text[i + Len(lit)])

\* The terms a query stands for: the query itself, or "ai" and its five
\* synonyms for the reserved query.
ExpectedTerms(query) ==
    IF Strip(Lower(query)) = <<"a","i">> THEN AiTerms ELSE {Strip(query)}

\* The answer the topic filter is to give.
ExpectedMatch(query, pd) ==
    \/ query = <<>>
    \/ \E term \in ExpectedTerms(query) :
          \/ WholeWordOccurs(term, OrEmpty(pd.title))
          \/ WholeWordOccurs(term, OrEmpty(pd.abstract))

\* The query, without the blanks around it, begins and ends with a word
\* character.
WordEdged(query) ==
    LET q == Strip(query)
    IN  q # <<>> => IsWordChar(q[1]) /\ IsWordChar(q[Len(q)])

\* C21: matches_search_query answers true for the empty query and otherwise
\* exactly when the title or the abstract contains the query as a whole word,
\* without regard to case, or, for the query "AI", the word "ai" or one of its
\* five synonyms; a call changes nothing and a second call answers the same.
C21_WholeWordMatch ==
    /\ query_match.some =>
          query_match.v = ExpectedMatch(search_query, paper_data.v)
    /\ pc = "returned" => query_match.some

\* The claim holds for every query that begins and ends with a word
\* character.
C21_HoldsForWordEdgedQueries ==
    (query_match.some /\ WordEdged(search_query)) =>
        query_match.v = ExpectedMatch(search_query, paper_data.v)

\* The query "labor" was answered false for the title "Collaborative".
C21_SubstringRejected ==
    /\ query_match = Some(FALSE)
    /\ search_query = <<"l","a","b","o","r">>
    /\ paper_data.v.title = Some(<<"C","o","l","l","a","b","o","r","a","t","i","v","e">>)

\* The query "ai" was answered true for an abstract with "neural network"
\* under a title without "ai".
C21_SynonymAccepted ==
    /\ query_match = Some(TRUE)
    /\ search_query = <<"a","i">>
    /\ paper_data.v.title = Some(<<"T","r","a","d","e">>)
    /\ paper_data.v.abstract = Some(<<"A"," ","n","e","u","r","a","l"," ","n","e","t","w","o","r","k">>)

\* ------------------------------------------------------------------------
\* C22: the abstract of a page
\* ------------------------------------------------------------------------

\* The text of the element of abstract_selectors[i] when it has one: "T<i>".
ElemText(i) == <<"T", Digits[i + 1]>>

\* What a page can hold for abstract_selectors[i]: no element, an element of
\* blanks, an element with text.
ElemChoices(i) == {None, Some(<<" ">>), Some(ElemText(i))}

\* Every choice of elements for abstract_selectors[1..k].
RECURSIVE ElemCombinations(_)
ElemCombinations(k) ==
    IF k = 0 THEN {<<>>}
    ELSE {Append(f, c) : f \in ElemCombinations(k - 1), c \in ElemChoices(k)}

\* The pages with every combination of abstract elements, with and without a
\* match of the full-text pattern.  A page with a div.abstract-content or a
\* div.abstract has an element for div[class*="abstract"] too.
AbstractPages ==
    { [PageOld EXCEPT !.elems = e, !.main_abstract = m] :
          e \in {f \in ElemCombinations(NumSelectors) :
                    (f[3].some \/ f[4].some) => f[5].some},
          m \in {None, Some(<<"M"," ">>)} }

\* extract_paper_metadata(1) has fetched one of these pages and is about to
\* parse it.
InitAbstract ==
    /\ search_query = <<>>
    /\ start_date = None
    /\ end_date = None
    /\ \E page \in AbstractPages :
          /\ last_answer = Some(Response(200, page))
          /\ gp_result = [kind |-> "returned", val |-> Some(Response(200, page))]
    /\ paper_data = None
    /\ papers = <<>>
    /\ files = {}
    /\ downloaded = {}
    /\ pc = "extract"
    /\ max_papers = None /\ max_pages = None
    /\ start_number = 1 /\ download_pdfs = FALSE
    /\ current_number = 1 /\ papers_checked = 1
    /\ papers_found = 0 /\ consecutive_failures = 0
    /\ stop_reason = "none"
    /\ gp_caller = "extract" /\ retries = DefaultRetries /\ attempt = 0
    /\ sleeps = <<Delay>>
    /\ examined = <<1>>
    /\ outcomes = <<>>
    /\ start_arg = Some(1)
    /\ test_num = 0 /\ probed = <<>>
    /\ rested = Some(Delay)
    /\ save_calls = <<>>
    /\ runs = 1
    /\ interrupted = FALSE
    /\ date_match = None
    /\ query_match = None

SpecAbstract == InitAbstract /\ [][Extract]_vars

\* The page that was parsed.
ParsedPage == last_answer.v.page

\* The structural locations of a page that yield non-empty text.
YieldingLocations(page) ==
    {i \in 1..NumSelectors :
        page.elems[i].some /\ CleanAbstract(page.elems[i].v) # <<>>}

\* The abstract a page is to give: the text of its first yielding location,
\* else the match of the full-text pattern, else none.
ExpectedAbstract(page) ==
    LET yielding == YieldingLocations(page)
    IN  IF yielding # {}
        THEN Some(CleanAbstract(
                 page.elems[CHOOSE i \in yielding : \A j \in yielding : i <= j].v))
        ELSE IF page.main_abstract.some THEN Some(Strip(page.main_abstract.v))
        ELSE None

\* C22: the abstract is the text of the first structural location, in the
\* order of abstract_selectors, that yields non-empty text; a location that
\* is present but empty is skipped; the full-text pattern is used only when
\* no location yields text; when that fails too the abstract is unset; the
\* record is returned in every case.
C22_FirstNonEmptyLocation ==
    pc = "body" =>
        /\ paper_data.some
        /\ IF TruthyStr(ExpectedAbstract(ParsedPage))
           THEN paper_data.v.abstract = ExpectedAbstract(ParsedPage)
           ELSE ~TruthyStr(paper_data.v.abstract)

\* The claim holds for every page none of whose locations is present and
\* empty before the first one that yields text.
C22_HoldsWithoutEmptyLocation ==
    ( /\ pc = "body"
      /\ \A i \in 1..NumSelectors :
            (ParsedPage.elems[i].some /\ i \notin YieldingLocations(ParsedPage)) =>
                \E j \in YieldingLocations(ParsedPage) : j < i ) =>
        /\ paper_data.some
        /\ IF TruthyStr(ExpectedAbstract(ParsedPage))
           THEN paper_data.v.abstract = ExpectedAbstract(ParsedPage)
           ELSE ~TruthyStr(paper_data.v.abstract)

\* ------------------------------------------------------------------------
\* C23: termination
\* ------------------------------------------------------------------------

\* The calls whose end is checked: with and without each limit, from 0, from
\* a start number the scan can exhaust, and from one it cannot.
TerminateArgs ==
    {None, Some(1)} \X {None, Some(1)}
        \X {Some(0), Some(SmallStart), Some(MaxConsecutiveFailures + SmallStart)}

\* One run of scrape_papers on a new scraper.
NextTerminate ==
    \/ \E a \in TerminateArgs, dl \in BOOLEAN : ScrapePapers(a[1], a[2], a[3], dl)
    \/ LoopHead
    \/ \E answer \in Answers : GetPageAttempt(answer)
    \/ Extract
    \/ \E io_ok \in BOOLEAN : LoopBody(io_ok)
    \/ \E write_ok \in BOOLEAN, io_ok \in BOOLEAN : DownloadPdf(write_ok, io_ok)

\* The call of extract_paper_metadata at line 328 comes back: the loop leaves
\* the position of the call, with a value or with an exception.
ExtractComesBack == pc = "extract" /\ pc' \in {"body", "crashed"}

\* The run with the program taking its next step as long as it has one: the
\* script calls scrape_papers, every request is answered or times out, every
\* call and every file operation returns.
SpecTerminate ==
    /\ Init
    /\ [][NextTerminate]_vars
    /\ WF_vars(\E a \in TerminateArgs, dl \in BOOLEAN : ScrapePapers(a[1], a[2], a[3], dl))
    /\ WF_vars(LoopHead)
    /\ WF_vars(\E answer \in Answers : GetPageAttempt(answer))
    /\ WF_pc(ExtractComesBack)
    /\ WF_vars(\E io_ok \in BOOLEAN : LoopBody(io_ok))
    /\ WF_vars(\E write_ok \in BOOLEAN, io_ok \in BOOLEAN : DownloadPdf(write_ok, io_ok))

\* Every completed iteration has moved the cursor down by one, so no more
\* documents are examined than the start number.
C23_CursorBoundsWork ==
    pc # "idle" =>
        /\ current_number = IF pc \in {"head", "done"}
                            THEN start_number - Len(examined)
                            ELSE examined[Len(examined)]
        /\ Len(examined) <= start_number
        /\ \A k \in DOMAIN examined : examined[k] = start_number - k + 1

\* The scan has stopped and scrape_papers has returned.
Returned == pc = "done" /\ StoppedState(stop_reason) # "SCANNING"

RunRecords == SubSeq(papers, Len(papers) - papers_found + 1, Len(papers))

\* The IDs of the records accepted in the current run go down along the list.
C24_RunIdsDecreasing ==
    \A i, j \in DOMAIN RunRecords :
        i < j => RunRecords[i].paper_id > RunRecords[j].paper_id

\* A step keeps every record of self.papers where it is.
C24_KeepsRecords ==
    /\ Len(papers') >= Len(papers)
    /\ \A i \in DOMAIN papers : papers'[i] = papers[i]

\* C24: during a run the result set only grows at its end (no record in it
\* is removed, replaced or moved by a later iteration) and the IDs of the
\* records accepted in the run are strictly decreasing in its order, so none
\* of them is there twice.
C24_AppendOnlyDecreasing ==
    []C24_RunIdsDecreasing /\ [][C24_KeepsRecords]_vars

\* A finished run that accepted two records, the first of them with a PDF
\* download between its acceptance and the next iteration.
C24_Witness ==
    /\ pc = "done"
    /\ papers_found = 2 /\ Len(papers) = 2
    /\ download_pdfs
    /\ TruthyStr(papers[1].pdf_url)

====
